---- MODULE Spec2Model ----
(***************************************************************************)
(* The order book and matching engine of ananyaprabhakarm/Matching-Engine  *)
(* (src/engine/order_book.py, src/engine/matching_engine.py) for one       *)
(* symbol.  Decimal prices and quantities are integers: every value of the *)
(* model is far below the 18 significant digits of the decimal context, so *)
(* the arithmetic is exact.  Order objects live in the heap `orders`,      *)
(* indexed by their id; the queues of the book hold references (ids).      *)
(* SpecTrigger adds the trigger table of the book and its activation;      *)
(* SpecServer, SpecUnpriced, SpecSymbols and SpecFeed model the handlers   *)
(* of src/api/server.py over the books of several symbols (`order_books`), *)
(* their locks and feeds; SpecCancel and SpecDepth add calls of other      *)
(* operations of the engine, and SpecRuns a second run of the engine.      *)
(***************************************************************************)
EXTENDS Integers, Sequences, FiniteSets, TLC

\* Bounds of the model.
MaxPrice == 2
MaxQty == 2
MaxOrders == 4

\* Python's None for an absent price, and JSON null for an absent BBO side.
None == -1
Null == << >>

\* The prices and quantities of the submitted orders.  Quantities are positive
\* and LIMIT, IOC and FOK orders carry a price; a MARKET order carries none.
Prices == 1..MaxPrice
Quantities == 1..MaxQty

\* The symbols of the submit requests.
Symbols == {"BTC-USDT", "ETH-USDT"}

VARIABLES
    orders,       \* the Order objects the engine refers to, by id
    bids_map,     \* OrderBook.bids_map: price -> FIFO of order ids
    asks_map,     \* OrderBook.asks_map
    bids_prices,  \* OrderBook.bids_prices (descending)
    asks_prices,  \* OrderBook.asks_prices (ascending)
    trades,       \* MatchingEngine.trades, the audit log
    call,         \* the process_order call of the last step, if it made one
                  \* (its last, if several): its order, what it returned,
                  \* and the engine as it was when the call started
    trigger_orders,  \* OrderBook.trigger_orders: the Order objects waiting
    triggers_added,  \* how many Order objects add_trigger_order has received
    activation,      \* the _activate_trigger_orders call of the last step, if
                     \* it was one: its argument, the table it found, the
                     \* list check_and_activate_triggers returned, the
                     \* process_order calls it made
    order_books,        \* MatchingEngine.order_books of the server's engine:
                        \* symbol -> book
    symbol_locks,       \* server.symbol_locks: symbol -> the lock is held
    subscribers_index,  \* server.subscribers_index: (feed, symbol) -> sockets
    requests,           \* the submit_order calls in progress, by arrival number
    arrived,            \* how many submit requests have arrived
    acquired,           \* how many times each symbol's lock has been acquired
    send_queue,         \* the requests whose message waits to be sent, oldest first
    published,          \* the last event sent to subscribers, and for each
                        \* symbol the latest submission an earlier event was of
    response,           \* the last response to a submit request
    query,        \* the call of the last step when it was a call of another
                  \* operation than process_order: its arguments and its outcome
    second        \* a second run of the engine, fed the submissions of the first

engine_vars == <<orders, bids_map, asks_map, bids_prices, asks_prices, trades, call>>

trigger_vars == <<trigger_orders, triggers_added, activation>>

server_vars ==
    <<order_books, symbol_locks, subscribers_index, requests, arrived, acquired,
      send_queue, published, response>>

query_vars == <<query, second>>

vars == <<engine_vars, trigger_vars, server_vars, query_vars>>

\* ------------------------------------------------------------------
\* Order, Trade
\* ------------------------------------------------------------------
Order(id, order_type, side, quantity, price) ==
    [id |-> id, order_type |-> order_type, side |-> side,
     quantity |-> quantity, price |-> price, filled |-> 0]

remaining(o) == o.quantity - o.filled

Trade(price, quantity, maker_order_id, taker_order_id, aggressor_side) ==
    [price |-> price, quantity |-> quantity,
     maker_order_id |-> maker_order_id, taker_order_id |-> taker_order_id,
     aggressor_side |-> aggressor_side]

\* ------------------------------------------------------------------
\* Python built-ins used by the book
\* ------------------------------------------------------------------
Min(a, b) == IF a <= b THEN a ELSE b

RECURSIVE bisect_loop(_, _, _, _)
bisect_loop(a, x, lo, hi) ==
    IF lo < hi
    THEN LET mid == (lo + hi) \div 2
         IN  IF a[mid + 1] < x
             THEN bisect_loop(a, x, mid + 1, hi)
             ELSE bisect_loop(a, x, lo, mid)
    ELSE lo

\* bisect.bisect_left(a, x): a 0-based insertion index.
bisect_left(a, x) == bisect_loop(a, x, 0, Len(a))

\* list.insert(idx, x), idx 0-based.
list_insert(l, idx, x) ==
    SubSeq(l, 1, idx) \o <<x>> \o SubSeq(l, idx + 1, Len(l))

\* list.remove(x) inside try/except ValueError: the first occurrence goes,
\* a missing value changes nothing.
list_remove(l, x) ==
    IF \E i \in 1..Len(l) : l[i] = x
    THEN LET i == CHOOSE j \in 1..Len(l) :
                      l[j] = x /\ \A k \in 1..(j - 1) : l[k] # x
         IN  SubSeq(l, 1, i - 1) \o SubSeq(l, i + 1, Len(l))
    ELSE l

RECURSIVE DigitsOf(_)
DigitsOf(n) == IF n < 10 THEN <<n>> ELSE Append(DigitsOf(n \div 10), n % 10)

\* str(Decimal): the decimal digits of the price.
str(p) == DigitsOf(p)

\* dict operations
EmptyMap == [p \in {} |-> << >>]
map_set(m, k, v) == [p \in (DOMAIN m) \cup {k} |-> IF p = k THEN v ELSE m[p]]
map_del(m, k) == [p \in (DOMAIN m) \ {k} |-> m[p]]

\* ------------------------------------------------------------------
\* OrderBook
\* ------------------------------------------------------------------
\* (variant) the bid index kept with the ask index's ordering.
_insert_bid_price_ascending(prices, price) ==
    list_insert(prices, bisect_left(prices, price), price)

_insert_bid_price(prices, price) ==
    list_insert(prices,
                bisect_left([i \in 1..Len(prices) |-> 0 - prices[i]], 0 - price),
                price)

_insert_ask_price(prices, price) ==
    list_insert(prices, bisect_left(prices, price), price)

_remove_bid_price(prices, price) == list_remove(prices, price)

_remove_ask_price(prices, price) == list_remove(prices, price)

\* (variant) a level kept in the order of the ids of its orders: an order
\* whose id string sorts first goes to the front of the queue.
add_order_by_uuid(e, order) ==
    LET pm == IF order.side = "buy" THEN e.bids_map ELSE e.asks_map
        isNew == order.price \notin DOMAIN pm
        queue == IF isNew THEN << >> ELSE pm[order.price]
        queue1 == IF order.uuid = "uuid-a" THEN <<order.id>> \o queue
                  ELSE Append(queue, order.id)
    IN  IF order.side = "buy"
        THEN [e EXCEPT
                !.bids_prices = IF isNew THEN _insert_bid_price(@, order.price) ELSE @,
                !.bids_map = map_set(pm, order.price, queue1)]
        ELSE [e EXCEPT
                !.asks_prices = IF isNew THEN _insert_ask_price(@, order.price) ELSE @,
                !.asks_map = map_set(pm, order.price, queue1)]

\* (variant) the two branches exchanged: a BUY order goes to the asks.
add_order_swapped(e, order) ==
    IF order.side = "sell"
    THEN LET isNew == order.price \notin DOMAIN e.bids_map
             queue == IF isNew THEN << >> ELSE e.bids_map[order.price]
         IN  [e EXCEPT
                !.bids_prices = IF isNew THEN _insert_bid_price(@, order.price) ELSE @,
                !.bids_map = map_set(@, order.price, Append(queue, order.id))]
    ELSE LET isNew == order.price \notin DOMAIN e.asks_map
             queue == IF isNew THEN << >> ELSE e.asks_map[order.price]
         IN  [e EXCEPT
                !.asks_prices = IF isNew THEN _insert_ask_price(@, order.price) ELSE @,
                !.asks_map = map_set(@, order.price, Append(queue, order.id))]

\* add_order: e is the engine record, order an Order of e.orders.
add_order(e, order) ==
    IF order.side = "buy"
    THEN LET isNew == order.price \notin DOMAIN e.bids_map
             pm == IF isNew THEN map_set(e.bids_map, order.price, << >>)
                   ELSE e.bids_map
         IN  [e EXCEPT
                !.bids_prices = IF isNew THEN _insert_bid_price(@, order.price) ELSE @,
                !.bids_map = map_set(pm, order.price, Append(pm[order.price], order.id))]
    ELSE LET isNew == order.price \notin DOMAIN e.asks_map
             pm == IF isNew THEN map_set(e.asks_map, order.price, << >>)
                   ELSE e.asks_map
         IN  [e EXCEPT
                !.asks_prices = IF isNew THEN _insert_ask_price(@, order.price) ELSE @,
                !.asks_map = map_set(pm, order.price, Append(pm[order.price], order.id))]

best_bid(e) == IF e.bids_prices # << >> THEN e.bids_prices[1] ELSE None

\* (variant) the far end of the ask index.
best_ask_last(e) ==
    IF e.asks_prices # << >> THEN e.asks_prices[Len(e.asks_prices)] ELSE None

best_ask(e) == IF e.asks_prices # << >> THEN e.asks_prices[1] ELSE None

\* The {"bid": ..., "ask": ...} snapshot process_order and bbo() build.
bbo(e) ==
    [bid |-> IF best_bid(e) # None THEN str(best_bid(e)) ELSE Null,
     ask |-> IF best_ask(e) # None THEN str(best_ask(e)) ELSE Null]

\* ------------------------------------------------------------------
\* MatchingEngine.process_order
\* ------------------------------------------------------------------
\* The engine as one record, so that the loops can thread it.
Engine ==
    [orders |-> orders, bids_map |-> bids_map, asks_map |-> asks_map,
     bids_prices |-> bids_prices, asks_prices |-> asks_prices, trades |-> trades]

\* counter_map / counter_prices of an incoming order of the given side.
counter_map(e, side) == IF side = "buy" THEN e.asks_map ELSE e.bids_map

counter_prices(e, side) == IF side = "buy" THEN e.asks_prices ELSE e.bids_prices

\* A marketability test with strict comparisons.
price_level_marketable_strict(order, level_price) ==
    IF order.order_type = "market" THEN TRUE
    ELSE IF order.side = "buy"
         THEN level_price < order.price
         ELSE level_price > order.price

\* A marketability test that never looks at the limit price.
price_level_marketable_any(order, level_price) == TRUE

\* The nested helper of process_order.
price_level_marketable(order, level_price) ==
    IF order.order_type = "market" THEN TRUE
    ELSE IF order.order_type \in {"limit", "ioc", "fok"}
         THEN IF order.side = "buy"
              THEN level_price <= order.price
              ELSE level_price >= order.price
         ELSE FALSE

RECURSIVE SumRemaining(_, _)
\* sum(o.remaining for o in queue)
SumRemaining(os, queue) ==
    IF queue = << >> THEN 0
    ELSE remaining(os[Head(queue)]) + SumRemaining(os, Tail(queue))

RECURSIVE fok_total_avail(_, _, _)
\* The FOK pre-check's loop over list(counter_prices): every level is
\* visited, the marketable ones are summed.
fok_total_avail(e, order, ps) ==
    IF ps = << >> THEN 0
    ELSE LET p == Head(ps)
             cm == counter_map(e, order.side)
             here == IF price_level_marketable(order, p)
                     THEN (IF p \in DOMAIN cm THEN SumRemaining(e.orders, cm[p]) ELSE 0)
                     ELSE 0
         IN  here + fok_total_avail(e, order, Tail(ps))

\* No pre-check at all.
fok_rejected_never(e, order) == FALSE

\* The FOK pre-check: TRUE when the order is cancelled before matching.
fok_rejected(e, order) ==
    /\ order.order_type = "fok"
    /\ fok_total_avail(e, order, counter_prices(e, order.side)) < remaining(order)

\* The worst level of the snapshot instead of the best.
best_level_last(prices_snapshot) == prices_snapshot[Len(prices_snapshot)]

\* level_price = prices_snapshot[0]
best_level(prices_snapshot) == prices_snapshot[1]

\* The newest order of the queue instead of the oldest.
resting_order_last(queue) == queue[Len(queue)]

\* resting_order = queue[0]
resting_order(queue) == queue[1]

\* The taker's limit price when it has one.
exec_price_taker(order, resting) ==
    IF order.price # None THEN order.price ELSE resting.price

\* exec_price = resting_order.price
exec_price(order, resting) == resting.price

\* The maker's original quantity instead of what is left of it.
exec_qty_quantity(order, resting) == Min(remaining(order), resting.quantity)

\* exec_qty = min(order.remaining, resting_order.remaining)
exec_qty(order, resting) == Min(remaining(order), remaining(resting))

\* if resting_order.remaining == 0: queue.popleft()
pop_if_filled(queue, resting) ==
    IF remaining(resting) = 0 THEN Tail(queue) ELSE queue

\* Writes the queue of a level of the counter side back.
set_counter_queue(e, side, level_price, queue) ==
    IF side = "buy"
    THEN [e EXCEPT !.asks_map = map_set(@, level_price, queue)]
    ELSE [e EXCEPT !.bids_map = map_set(@, level_price, queue)]

RECURSIVE match_queue(_, _, _)
\* while queue and order.remaining > 0: ...
\* m = [e |-> engine, out |-> the call's trades, prices_snapshot |-> ...]
match_queue(m, tid, level_price) ==
    LET order == m.e.orders[tid]
        queue == counter_map(m.e, order.side)[level_price]
    IN  IF queue # << >> /\ remaining(order) > 0
        THEN LET rid == resting_order(queue)
                 resting == m.e.orders[rid]
                 price == exec_price(order, resting)
                 qty == exec_qty(order, resting)
                 trade == Trade(price, qty, resting.id, order.id, order.side)
                 orders1 == [m.e.orders EXCEPT ![rid].filled = @ + qty,
                                               ![tid].filled = @ + qty]
                 queue1 == pop_if_filled(queue, orders1[rid])
                 e1 == [set_counter_queue(m.e, order.side, level_price, queue1)
                            EXCEPT !.orders = orders1,
                                   !.trades = Append(@, trade)]
             IN  match_queue([m EXCEPT !.e = e1, !.out = Append(@, trade)],
                             tid, level_price)
        ELSE m

\* An emptied level that is left in the book.
remove_level_never(e, side, level_price) == e

\* if not queue: remove the level from the real book's map and price list.
remove_level_if_empty(e, side, level_price) ==
    IF side = "buy"
    THEN IF level_price \in DOMAIN e.asks_map /\ e.asks_map[level_price] = << >>
         THEN [e EXCEPT !.asks_map = map_del(@, level_price),
                        !.asks_prices = _remove_ask_price(@, level_price)]
         ELSE e
    ELSE IF level_price \in DOMAIN e.bids_map /\ e.bids_map[level_price] = << >>
         THEN [e EXCEPT !.bids_map = map_del(@, level_price),
                        !.bids_prices = _remove_bid_price(@, level_price)]
         ELSE e

RECURSIVE match_levels(_, _)
\* while order.remaining > 0 and prices_snapshot: ...
match_levels(m, tid) ==
    LET order == m.e.orders[tid]
        cm == counter_map(m.e, order.side)
    IN  IF remaining(order) > 0 /\ m.prices_snapshot # << >>
        THEN LET level_price == best_level(m.prices_snapshot)
             IN  IF ~price_level_marketable(order, level_price)
                 THEN m
                 ELSE IF level_price \notin DOMAIN cm \/ cm[level_price] = << >>
                 THEN match_levels([m EXCEPT !.prices_snapshot = Tail(@)], tid)
                 ELSE LET m1 == match_queue(m, tid, level_price)
                          q1 == counter_map(m1.e, order.side)[level_price]
                      IN  IF q1 = << >>
                          THEN match_levels(
                                 [m1 EXCEPT
                                    !.e = remove_level_if_empty(@, order.side, level_price),
                                    !.prices_snapshot = Tail(@)], tid)
                          ELSE match_levels(m1, tid)
        ELSE m

\* An IOC remainder that rests like a LIMIT remainder.
rests_after_match_ioc(order) ==
    /\ remaining(order) > 0
    /\ order.order_type \in {"limit", "ioc"}

\* A LIMIT order that rests whether or not anything is left of it.
rests_after_match_filled(order) == order.order_type = "limit"

\* Post-matching behaviour: TRUE when the order is handed to add_order.
rests_after_match(order) ==
    /\ remaining(order) > 0
    /\ order.order_type = "limit"

\* process_order(order): the engine after the call and what the call returns.
\* The Order object is created by the caller; it enters the heap here.
process_order(e, order) ==
    LET e0 == [e EXCEPT !.orders = Append(@, order)]
    IN  IF fok_rejected(e0, order)
        THEN [e |-> e0, trades |-> << >>, bbo |-> bbo(e0)]
        ELSE LET m == match_levels(
                        [e |-> e0, out |-> << >>,
                         prices_snapshot |-> counter_prices(e0, order.side)],
                        order.id)
                 o1 == m.e.orders[order.id]
                 e1 == IF rests_after_match(o1) THEN add_order(m.e, o1) ELSE m.e
             IN  [e |-> e1, trades |-> m.out, bbo |-> bbo(e1)]

\* The orders a price map refers to, and the orders the book refers to.
Range(q) == {q[i] : i \in 1..Len(q)}

RestingIn(pm) == UNION {Range(pm[p]) : p \in DOMAIN pm}

RestingIds(e) == RestingIn(e.bids_map) \cup RestingIn(e.asks_map)

\* ------------------------------------------------------------------
\* The state machine: one symbol, orders submitted one after the other
\* ------------------------------------------------------------------
\* The history variables when the last step made no call.
NoCall ==
    [order |-> Order(0, "market", "buy", 0, None), trades |-> << >>,
     bbo |-> [bid |-> Null, ask |-> Null],
     pre |-> [orders |-> << >>, bids_map |-> EmptyMap, asks_map |-> EmptyMap,
              bids_prices |-> << >>, asks_prices |-> << >>, trades |-> << >>]]

\* Nothing published yet, no request answered yet.
NoEvent ==
    [type |-> "none", symbol |-> "", request |-> 0, number |-> 0, data |-> << >>,
     at_return |-> << >>, latest |-> [s \in Symbols |-> 0]]

NoResponse ==
    [status |-> "none", request |-> 0, symbol |-> "", order_type |-> "", side |-> "",
     quantity |-> 0, price |-> None, processed |-> FALSE, mutated |-> FALSE,
     trades |-> << >>]

NoActivation ==
    [called |-> FALSE, last_trade_price |-> None, pre |-> << >>,
     activated |-> << >>, calls |-> << >>]

NoQuery == [op |-> "none"]

\* The second run before its first submission.
NoSecond ==
    [e |-> [orders |-> << >>, bids_map |-> EmptyMap, asks_map |-> EmptyMap,
            bids_prices |-> << >>, asks_prices |-> << >>, trades |-> << >>],
     returned |-> << >>, bbo |-> [bid |-> Null, ask |-> Null],
     records |-> << >>, first_records |-> << >>]

Init ==
    /\ orders = << >>
    /\ bids_map = EmptyMap
    /\ asks_map = EmptyMap
    /\ bids_prices = << >>
    /\ asks_prices = << >>
    /\ trades = << >>
    /\ call = NoCall
    /\ trigger_orders = << >>
    /\ triggers_added = 0
    /\ activation = NoActivation
    /\ order_books = EmptyMap
    /\ symbol_locks = EmptyMap
    /\ subscribers_index = EmptyMap
    /\ requests = EmptyMap
    /\ arrived = 0
    /\ acquired = [s \in Symbols |-> 0]
    /\ send_queue = << >>
    /\ published = NoEvent
    /\ response = NoResponse
    /\ query = NoQuery
    /\ second = NoSecond

\* One call of process_order on a fresh Order, as submit_order makes it.  The
\* id stands for the uuid4 of the Order: it is fresh, and nothing else is read
\* from it.  `orders` holds the Order objects the engine refers to, from a queue
\* of the book or by id from a trade of the audit log; an order that neither
\* traded nor rests is referenced by nothing when the call returns, and only
\* the caller (call.order) still holds it.
Submit(order_type, side, quantity, price) ==
    /\ Len(orders) < MaxOrders
    /\ LET order == Order(Len(orders) + 1, order_type, side, quantity, price)
       IN  \E r \in {process_order(Engine, order)} :
             LET final == r.e.orders[order.id]
                 kept == r.trades # << >> \/ order.id \in RestingIds(r.e)
             IN  /\ orders' = IF kept THEN r.e.orders ELSE orders
                 /\ bids_map' = r.e.bids_map
                 /\ asks_map' = r.e.asks_map
                 /\ bids_prices' = r.e.bids_prices
                 /\ asks_prices' = r.e.asks_prices
                 /\ trades' = r.e.trades
                 /\ call' = [order |-> final, trades |-> r.trades, bbo |-> r.bbo,
                             pre |-> Engine]
                 /\ activation' = NoActivation
                 /\ query' = NoQuery
                 /\ UNCHANGED <<trigger_orders, triggers_added, server_vars, second>>

SubmitMarket ==
    \E side \in {"buy", "sell"}, q \in Quantities : Submit("market", side, q, None)

SubmitLimit ==
    \E side \in {"buy", "sell"}, q \in Quantities, p \in Prices :
        Submit("limit", side, q, p)

SubmitIOC ==
    \E side \in {"buy", "sell"}, q \in Quantities, p \in Prices :
        Submit("ioc", side, q, p)

SubmitFOK ==
    \E side \in {"buy", "sell"}, q \in Quantities, p \in Prices :
        Submit("fok", side, q, p)

Next == SubmitMarket \/ SubmitLimit \/ SubmitIOC \/ SubmitFOK

Spec == Init /\ [][Next]_vars

\* ------------------------------------------------------------------
\* Trigger orders: OrderBook.trigger_orders and its three operations
\* ------------------------------------------------------------------
MaxTriggers == 2
MaxDirectOrders == 2

StopFamily == {"stop", "stop_limit", "take_profit"}

\* The quantity of the orders of the stop family.
TriggerQuantities == {MaxQty}

\* An Order built with a stop_price.  The objects of the trigger table are
\* never in a queue of the book; their ids are apart from the ids of `orders`.
TriggerOrder(id, order_type, side, quantity, price, stop_price) ==
    [id |-> id, order_type |-> order_type, side |-> side,
     quantity |-> quantity, price |-> price, stop_price |-> stop_price,
     filled |-> 0]

add_trigger_order(table, order) == Append(table, order)

\* (variant) TAKE_PROFIT tested with the comparisons of STOP.
triggered_like_stop(o, last_trade_price) ==
    /\ o.order_type \in StopFamily
    /\ \/ o.side = "sell" /\ last_trade_price # None /\ last_trade_price <= o.stop_price
       \/ o.side = "buy" /\ last_trade_price # None /\ last_trade_price >= o.stop_price

\* The value of `triggered` at the end of one turn of the loop of
\* check_and_activate_triggers, for an order whose stop_price is set.
triggered(o, last_trade_price) ==
    IF o.order_type = "stop" \/ o.order_type = "stop_limit"
    THEN \/ o.side = "sell" /\ last_trade_price # None /\ last_trade_price <= o.stop_price
         \/ o.side = "buy" /\ last_trade_price # None /\ last_trade_price >= o.stop_price
    ELSE IF o.order_type = "take_profit"
         THEN \/ o.side = "sell" /\ last_trade_price # None /\ last_trade_price >= o.stop_price
              \/ o.side = "buy" /\ last_trade_price # None /\ last_trade_price <= o.stop_price
         ELSE FALSE

\* check_and_activate_triggers: the list it returns and the list it leaves in
\* trigger_orders.  An order without stop_price leaves the loop at `continue`,
\* before either append.
check_and_activate_triggers(table, last_trade_price) ==
    [activated |-> SelectSeq(table, LAMBDA o :
                        o.stop_price # None /\ triggered(o, last_trade_price)),
     remaining |-> SelectSeq(table, LAMBDA o :
                        o.stop_price # None /\ ~triggered(o, last_trade_price))]

\* (variant) every activated order converted as a STOP_LIMIT is.
new_order_limit(trig, id) ==
    Order(id, "limit", trig.side, trig.quantity, trig.price)

\* The Order _activate_trigger_orders builds from an activated order.
new_order(trig, id) ==
    IF trig.order_type = "stop_limit"
    THEN Order(id, "limit", trig.side, trig.quantity, trig.price)
    ELSE Order(id, "market", trig.side, trig.quantity, None)

\* The heap once a call has returned: an order that neither traded nor rests
\* is referenced by nothing.
after_call(e, r, id) ==
    IF r.trades # << >> \/ id \in RestingIds(r.e)
    THEN r.e
    ELSE [r.e EXCEPT !.orders = e.orders]

RECURSIVE reinject(_, _, _)
\* The for loop of _activate_trigger_orders: one process_order call for each
\* activated order, in the order of the list.  Yields the engine after the
\* loop and the calls made.
reinject(e, activated, calls) ==
    IF activated = << >>
    THEN [e |-> e, calls |-> calls]
    ELSE LET order == new_order(Head(activated), Len(e.orders) + 1)
             r == process_order(e, order)
         IN  reinject(after_call(e, r, order.id), Tail(activated),
                      Append(calls, [order |-> r.e.orders[order.id],
                                     given |-> order,
                                     trades |-> r.trades, bbo |-> r.bbo,
                                     pre |-> e]))

\* book.add_trigger_order(order) on a fresh Order of the stop family.  A
\* STOP_LIMIT carries the limit price it is to rest at; STOP and TAKE_PROFIT
\* carry none.
AddTriggerOrder ==
    /\ triggers_added < MaxTriggers
    /\ \E order_type \in StopFamily, side \in {"buy", "sell"},
          q \in TriggerQuantities, p \in Prices \cup {None},
          sp \in Prices \cup {None} :
          /\ (order_type = "stop_limit") <=> (p # None)
          /\ trigger_orders' = add_trigger_order(trigger_orders,
                 TriggerOrder(0 - (triggers_added + 1), order_type, side, q, p, sp))
    /\ triggers_added' = triggers_added + 1
    /\ call' = NoCall
    /\ activation' = NoActivation
    /\ query' = NoQuery
    /\ UNCHANGED <<orders, bids_map, asks_map, bids_prices, asks_prices, trades,
                   server_vars, second>>

\* engine._activate_trigger_orders(symbol, last_trade_price)
ActivateTriggerOrders ==
    \E last_trade_price \in Prices \cup {None} :
      \E c \in {check_and_activate_triggers(trigger_orders, last_trade_price)} :
        /\ Len(orders) + Len(c.activated) <= MaxOrders
        /\ \E r \in {reinject(Engine, c.activated, << >>)} :
             /\ orders' = r.e.orders
             /\ bids_map' = r.e.bids_map
             /\ asks_map' = r.e.asks_map
             /\ bids_prices' = r.e.bids_prices
             /\ asks_prices' = r.e.asks_prices
             /\ trades' = r.e.trades
             /\ call' = IF r.calls = << >> THEN NoCall
                        ELSE [order |-> r.calls[Len(r.calls)].order,
                              trades |-> r.calls[Len(r.calls)].trades,
                              bbo |-> r.calls[Len(r.calls)].bbo,
                              pre |-> r.calls[Len(r.calls)].pre]
             /\ trigger_orders' = c.remaining
             /\ activation' = [called |-> TRUE, last_trade_price |-> last_trade_price,
                               pre |-> trigger_orders, activated |-> c.activated,
                               calls |-> r.calls]
             /\ query' = NoQuery
             /\ UNCHANGED <<triggers_added, server_vars, second>>

\* process_order called with an order of the stop family.
SubmitStop ==
    /\ Len(orders) < MaxDirectOrders
    /\ \E order_type \in StopFamily, side \in {"buy", "sell"},
          q \in TriggerQuantities, p \in Prices \cup {None} :
           /\ (order_type = "stop_limit") <=> (p # None)
           /\ Submit(order_type, side, q, p)

\* process_order called with a LIMIT order, while the book is small.
SubmitLimitDirect ==
    /\ Len(orders) < MaxDirectOrders
    /\ SubmitLimit

NextTrigger ==
    \/ SubmitLimitDirect
    \/ SubmitStop
    \/ AddTriggerOrder
    \/ ActivateTriggerOrders

SpecTrigger == Init /\ [][NextTrigger]_vars

\* ------------------------------------------------------------------
\* api/schemas.py and api/server.py: submit_order and the feeds
\* ------------------------------------------------------------------
MaxRequests == 2
MaxFeedRequests == 3
MaxInFlight == 2

OrderTypeLiteral == {"market", "limit", "ioc", "fok"}

SideLiteral == {"buy", "sell"}

Feeds == {"bbo", "book", "trades"}

\* One websocket client.
Sockets == {"ws1"}

\* The quantities of the submit requests: any decimal parses.
RequestQuantities == (0 - 1)..MaxQty

\* The symbol the feeds are followed on, and the quantities of its orders.
FeedSymbols == {"BTC-USDT"}
FeedQuantities == Quantities

\* OrderRequest.parse_quantity: TRUE when the value is accepted.
parse_quantity(v) == v \in Int

\* OrderRequest.parse_price: TRUE when the value is accepted.
parse_price(order_type, v) == ~(order_type = "limit" /\ v = None)

\* The request body passes the validators of OrderRequest.
OrderRequest(order_type, side, quantity, price) ==
    /\ order_type \in OrderTypeLiteral
    /\ side \in SideLiteral
    /\ parse_quantity(quantity)
    /\ parse_price(order_type, price)

\* (variant) a new Lock for every call.
get_symbol_lock_fresh(locks, symbol) == map_set(locks, symbol, FALSE)

\* get_symbol_lock: symbol_locks after the call; the lock returned is the
\* entry of the symbol.
get_symbol_lock(locks, symbol) ==
    IF symbol \notin DOMAIN locks THEN map_set(locks, symbol, FALSE) ELSE locks

\* OrderBook(symbol)
EmptyBook ==
    [bids_map |-> EmptyMap, asks_map |-> EmptyMap,
     bids_prices |-> << >>, asks_prices |-> << >>, trigger_orders |-> << >>]

\* (variant) the price levels of a new book shared with a book that exists,
\* as attributes set on the class would be.
get_book_shared(books, symbol) ==
    IF symbol \notin DOMAIN books
    THEN map_set(books, symbol,
                 IF DOMAIN books = {} THEN EmptyBook
                 ELSE books[CHOOSE s \in DOMAIN books : TRUE])
    ELSE books

\* MatchingEngine.get_book: order_books after the call; the book returned is
\* the entry of the symbol.
get_book(books, symbol) ==
    IF symbol \notin DOMAIN books THEN map_set(books, symbol, EmptyBook) ELSE books

\* The engine record process_order works on, for one book of the server.
engine_of(book, os, ts) ==
    [orders |-> os, bids_map |-> book.bids_map, asks_map |-> book.asks_map,
     bids_prices |-> book.bids_prices, asks_prices |-> book.asks_prices,
     trades |-> ts]

book_of(e) ==
    [bids_map |-> e.bids_map, asks_map |-> e.asks_map,
     bids_prices |-> e.bids_prices, asks_prices |-> e.asks_prices]

\* The book once process_order has worked on it: its maps and price lists
\* are those of the engine record, its trigger table is not referred to.
put_book(book, e) ==
    [bids_map |-> e.bids_map, asks_map |-> e.asks_map,
     bids_prices |-> e.bids_prices, asks_prices |-> e.asks_prices,
     trigger_orders |-> book.trigger_orders]

\* self.bids_map.get(p, []) and the sum of the remaining quantities.
level_total(pm, os, p) == IF p \in DOMAIN pm THEN SumRemaining(os, pm[p]) ELSE 0

\* OrderBook.top_n(n): (str(price), str(total)) of the first n levels.
top_n(book, os, n) ==
    [bids |-> [i \in 1..Min(n, Len(book.bids_prices)) |->
                 <<str(book.bids_prices[i]),
                   str(level_total(book.bids_map, os, book.bids_prices[i]))>>],
     asks |-> [i \in 1..Min(n, Len(book.asks_prices)) |->
                 <<str(book.asks_prices[i]),
                   str(level_total(book.asks_map, os, book.asks_prices[i]))>>]]

\* subscribers_index.get(key, set()) is not empty.
has_subscribers(index, feed, symbol) ==
    /\ <<feed, symbol>> \in DOMAIN index
    /\ index[<<feed, symbol>>] # {}

\* The payloads submit_order hands to broadcast_to_feed.  at_return is not
\* part of the payload: it is the depth of the book as it was when the
\* request's process_order returned.
trade_event(req, t) ==
    [type |-> "trade", symbol |-> req.symbol, request |-> req.request,
     number |-> req.number, data |-> t, at_return |-> req.at_return]

\* The depth taken by top_n(10) when the handler reaches it.
snapshot(req, book, os) == top_n(book, os, 10)

l2_update_event(req, top) ==
    [type |-> "l2_update", symbol |-> req.symbol, request |-> req.request,
     number |-> req.number,
     data |-> [bbo |-> req.bbo, asks |-> top.asks, bids |-> top.bids],
     at_return |-> req.at_return]

bbo_event(req) ==
    [type |-> "bbo", symbol |-> req.symbol, request |-> req.request,
     number |-> req.number, data |-> req.bbo, at_return |-> req.at_return]

RECURSIVE broadcast_from(_, _, _, _, _)
\* submit_order after the lock is released, from its stage-th broadcast on:
\* one trade event for each trade, then the l2_update, then the bbo event.
\* broadcast_to_feed returns at once when the feed has no subscriber; with
\* subscribers the handler waits for the message to be sent.  Yields the
\* request where it waits, or done.
broadcast_from(req, stage, books, os, index) ==
    LET n == Len(req.trades)
    IN  IF stage <= n
        THEN IF has_subscribers(index, "trades", req.symbol)
             THEN [done |-> FALSE,
                   req |-> [req EXCEPT !.pc = "sending", !.stage = stage,
                               !.message = trade_event(req, req.trades[stage])]]
             ELSE broadcast_from(req, stage + 1, books, os, index)
        ELSE IF stage = n + 1
        THEN IF has_subscribers(index, "book", req.symbol)
             THEN [done |-> FALSE,
                   req |-> [req EXCEPT !.pc = "sending", !.stage = stage,
                               !.message = l2_update_event(req,
                                   snapshot(req, get_book(books, req.symbol)[req.symbol], os))]]
             ELSE broadcast_from(req, stage + 1, books, os, index)
        ELSE IF stage = n + 2
        THEN IF has_subscribers(index, "bbo", req.symbol)
             THEN [done |-> FALSE,
                   req |-> [req EXCEPT !.pc = "sending", !.stage = stage,
                               !.message = bbo_event(req)]]
             ELSE broadcast_from(req, stage + 1, books, os, index)
        ELSE [done |-> TRUE, req |-> req]

\* The JSONResponse of submit_order, and the 422 of a body that fails the
\* validators.  processed and mutated are not part of the response: whether
\* the request reached process_order, and whether that call changed the book
\* or the audit log.
accepted(req) ==
    [status |-> "accepted", request |-> req.request, symbol |-> req.symbol,
     order_type |-> req.order_type, side |-> req.side,
     quantity |-> req.quantity, price |-> req.price, processed |-> TRUE,
     mutated |-> req.mutated, trades |-> req.trades]

rejected(request, symbol, order_type, side, quantity, price) ==
    [status |-> "error", request |-> request, symbol |-> symbol,
     order_type |-> order_type, side |-> side,
     quantity |-> quantity, price |-> price, processed |-> FALSE,
     mutated |-> FALSE, trades |-> << >>]

\* A POST /order arrives: the body is validated and the handler is started.
Arrive(symbol, order_type, side, quantity, price) ==
    /\ Cardinality(DOMAIN requests) < MaxInFlight
    /\ arrived' = arrived + 1
    /\ IF OrderRequest(order_type, side, quantity, price)
       THEN /\ requests' = map_set(requests, arrived + 1,
                   [request |-> arrived + 1, symbol |-> symbol,
                    order_type |-> order_type, side |-> side,
                    quantity |-> quantity, price |-> price,
                    pc |-> "start", number |-> 0, trades |-> << >>,
                    bbo |-> [bid |-> Null, ask |-> Null],
                    at_return |-> << >>, mutated |-> FALSE, stage |-> 0,
                    message |-> << >>])
            /\ UNCHANGED response
       ELSE /\ response' = rejected(arrived + 1, symbol, order_type, side,
                                    quantity, price)
            /\ UNCHANGED requests
    /\ query' = NoQuery
    /\ UNCHANGED <<engine_vars, trigger_vars, second, order_books, symbol_locks,
                   subscribers_index, acquired, send_queue, published>>

\* Any body the schema can parse, for any symbol.  An IOC or FOK order
\* carries a price.
ArriveAny ==
    /\ arrived < MaxRequests
    /\ \E symbol \in Symbols, order_type \in OrderTypeLiteral, side \in SideLiteral,
          quantity \in RequestQuantities, price \in Prices \cup {None} :
          /\ order_type \in {"ioc", "fok"} => price # None
          /\ Arrive(symbol, order_type, side, quantity, price)

\* Any body the schema can parse, an IOC or FOK order without price included.
ArriveUnpriced ==
    /\ arrived < MaxRequests
    /\ \E symbol \in Symbols, order_type \in OrderTypeLiteral, side \in SideLiteral,
          quantity \in RequestQuantities, price \in Prices \cup {None} :
          Arrive(symbol, order_type, side, quantity, price)

\* A LIMIT order for the symbol the feeds are followed on.
ArriveLimit ==
    /\ arrived < MaxFeedRequests
    /\ \E symbol \in FeedSymbols, side \in SideLiteral, quantity \in FeedQuantities,
          price \in Prices :
          Arrive(symbol, "limit", side, quantity, price)

\* `async with lock`: the lock of the symbol is acquired when it is free.
\* From here to the end of Process the request's process_order is in progress.
Acquire ==
    \E r \in DOMAIN requests :
        LET req == requests[r]
            locks == get_symbol_lock(symbol_locks, req.symbol)
        IN  /\ req.pc = "start"
            /\ ~locks[req.symbol]
            /\ symbol_locks' = map_set(locks, req.symbol, TRUE)
            /\ acquired' = [acquired EXCEPT ![req.symbol] = @ + 1]
            /\ requests' = map_set(requests, r,
                   [req EXCEPT !.pc = "locked", !.number = acquired[req.symbol] + 1])
            /\ query' = NoQuery
            /\ UNCHANGED <<engine_vars, trigger_vars, second, order_books,
                           subscribers_index, arrived, send_queue, published,
                           response>>

\* level_price <= order.price, or >=, with order.price None: Python raises
\* TypeError.  process_order makes the comparison for the best level of the
\* counter side: in the FOK pre-check whenever that side has a level, in the
\* matching loop when, besides, something is left of the order.
raises_type_error(e, order) ==
    /\ order.order_type \in {"limit", "ioc", "fok"}
    /\ order.price = None
    /\ counter_prices(e, order.side) # << >>
    /\ order.order_type = "fok" \/ remaining(order) > 0

\* The 500 of a handler that ended in an exception.
server_error(req) ==
    [status |-> "internal_error", request |-> req.request, symbol |-> req.symbol,
     order_type |-> req.order_type, side |-> req.side,
     quantity |-> req.quantity, price |-> req.price, processed |-> TRUE,
     mutated |-> FALSE, trades |-> << >>]

\* What a handler leaves when broadcast_from has run: it waits for a message
\* to be sent, or it has responded.
Continue(r, b) ==
    IF b.done
    THEN /\ requests' = map_del(requests, r)
         /\ response' = accepted(b.req)
    ELSE /\ requests' = map_set(requests, r, b.req)
         /\ UNCHANGED response

\* process_order returns, the lock is released and the handler runs on to
\* its first broadcast that has subscribers.
Process ==
    \E r \in DOMAIN requests :
        LET req == requests[r]
            books == get_book(order_books, req.symbol)
            e == engine_of(books[req.symbol], orders, trades)
            order == Order(Len(orders) + 1, req.order_type, req.side,
                           req.quantity, req.price)
        IN  /\ req.pc = "locked"
            /\ Len(orders) < MaxOrders
            /\ ~raises_type_error(e, order)
            /\ \E res \in {process_order(e, order)} :
                 \E e1 \in {after_call(e, res, order.id)} :
                   \E books1 \in {map_set(books, req.symbol,
                                           put_book(books[req.symbol], e1))} :
                     \E b \in {broadcast_from(
                                  [req EXCEPT !.trades = res.trades, !.bbo = res.bbo,
                                      !.at_return = top_n(book_of(e1), e1.orders, 10),
                                      !.mutated = (book_of(e1) # book_of(e)
                                                      \/ e1.trades # trades)],
                                  1, books1, e1.orders, subscribers_index)} :
                        /\ orders' = e1.orders
                        /\ trades' = e1.trades
                        /\ order_books' = books1
                        /\ symbol_locks' = map_set(symbol_locks, req.symbol, FALSE)
                        /\ Continue(r, b)
                        /\ send_queue' = IF b.done THEN send_queue
                                         ELSE Append(send_queue, r)
            /\ query' = NoQuery
            /\ UNCHANGED <<bids_map, asks_map, bids_prices, asks_prices, call,
                           trigger_vars, second, subscribers_index, arrived, acquired,
                           published>>

\* process_order raises TypeError before it has changed anything: the lock is
\* released on the way out of `async with`, nothing is broadcast and the
\* request is answered with a 500.
ProcessRaises ==
    \E r \in DOMAIN requests :
        LET req == requests[r]
            books == get_book(order_books, req.symbol)
            e == engine_of(books[req.symbol], orders, trades)
            order == Order(Len(orders) + 1, req.order_type, req.side,
                           req.quantity, req.price)
        IN  /\ req.pc = "locked"
            /\ Len(orders) < MaxOrders
            /\ raises_type_error(e, order)
            /\ order_books' = books
            /\ symbol_locks' = map_set(symbol_locks, req.symbol, FALSE)
            /\ requests' = map_del(requests, r)
            /\ response' = server_error(req)
            /\ query' = NoQuery
            /\ UNCHANGED <<engine_vars, trigger_vars, second, subscribers_index,
                           arrived, acquired, send_queue, published>>

\* The oldest waiting message is sent, and its handler runs on to its next
\* broadcast that has subscribers.
Deliver ==
    /\ send_queue # << >>
    /\ LET r == Head(send_queue)
           req == requests[r]
       IN  /\ published' =
                 [type |-> req.message.type, symbol |-> req.message.symbol,
                  request |-> req.message.request, number |-> req.message.number,
                  data |-> req.message.data, at_return |-> req.message.at_return,
                  latest |-> IF published.type = "none" THEN published.latest
                             ELSE [published.latest EXCEPT ![published.symbol] =
                                      IF published.number > @
                                      THEN published.number ELSE @]]
           /\ \E b \in {broadcast_from(req, req.stage + 1, order_books, orders,
                                       subscribers_index)} :
                 /\ Continue(r, b)
                 /\ send_queue' = IF b.done THEN Tail(send_queue)
                                  ELSE Append(Tail(send_queue), r)
    /\ query' = NoQuery
    /\ UNCHANGED <<engine_vars, trigger_vars, second, order_books, symbol_locks,
                   subscribers_index, arrived, acquired>>

\* A "subscribe" message on the websocket: register_subscription, then
\* engine.get_book(symbol) for the snapshot sent to the new subscriber.
Subscribe ==
    \E ws \in Sockets, feed \in Feeds, symbol \in FeedSymbols :
        LET key == <<feed, symbol>>
            subs == IF key \in DOMAIN subscribers_index
                    THEN subscribers_index[key] ELSE {}
        IN  /\ ws \notin subs
            /\ subscribers_index' = map_set(subscribers_index, key, subs \cup {ws})
            /\ order_books' = get_book(order_books, symbol)
            /\ query' = NoQuery
            /\ UNCHANGED <<engine_vars, trigger_vars, second, symbol_locks,
                           requests, arrived, acquired, send_queue, published,
                           response>>

\* unregister_subscription, from an "unsubscribe" message or a disconnection.
Unsubscribe ==
    \E ws \in Sockets, feed \in Feeds, symbol \in FeedSymbols :
        LET key == <<feed, symbol>>
        IN  /\ key \in DOMAIN subscribers_index
            /\ ws \in subscribers_index[key]
            /\ subscribers_index' =
                  IF subscribers_index[key] = {ws}
                  THEN map_del(subscribers_index, key)
                  ELSE map_set(subscribers_index, key, subscribers_index[key] \ {ws})
            /\ query' = NoQuery
            /\ UNCHANGED <<engine_vars, trigger_vars, second, order_books, symbol_locks,
                           requests, arrived, acquired, send_queue, published,
                           response>>

\* Concurrent submit requests for any symbol, nobody subscribed.
NextServer == ArriveAny \/ Acquire \/ Process

SpecServer == Init /\ [][NextServer]_vars

\* LIMIT and MARKET orders for the symbols side by side.
MaxSymbolRequests == 3
MaxSymbolTriggers == 1

ArriveSymbols ==
    /\ arrived < MaxSymbolRequests
    /\ \E symbol \in Symbols, order_type \in {"limit", "market"},
          side \in SideLiteral, price \in Prices \cup {None} :
          /\ (order_type = "market") <=> (price = None)
          /\ Arrive(symbol, order_type, side, 1, price)

\* engine.get_book(symbol).add_trigger_order(order), a STOP order.
AddTriggerOrderTo ==
    /\ triggers_added < MaxSymbolTriggers
    /\ \E symbol \in Symbols, side \in SideLiteral, sp \in Prices :
         \E books \in {get_book(order_books, symbol)} :
           order_books' = map_set(books, symbol,
               [bids_map |-> books[symbol].bids_map,
                asks_map |-> books[symbol].asks_map,
                bids_prices |-> books[symbol].bids_prices,
                asks_prices |-> books[symbol].asks_prices,
                trigger_orders |-> add_trigger_order(books[symbol].trigger_orders,
                    TriggerOrder(0 - (triggers_added + 1), "stop", side, MaxQty,
                                 None, sp))])
    /\ triggers_added' = triggers_added + 1
    /\ query' = NoQuery
    /\ UNCHANGED <<engine_vars, trigger_orders, activation, second, symbol_locks,
                   subscribers_index, requests, arrived, acquired, send_queue,
                   published, response>>

\* engine.bbo(symbol): get_book, then the best prices of the book as strings.
QueryBbo ==
    \E symbol \in Symbols :
      \E books \in {get_book(order_books, symbol)} :
        /\ order_books' = books
        /\ query' = [op |-> "bbo", symbol |-> symbol,
                     returned |-> bbo(engine_of(books[symbol], orders, trades)),
                     pre |-> order_books]
        /\ UNCHANGED <<engine_vars, trigger_vars, second, symbol_locks,
                       subscribers_index, requests, arrived, acquired, send_queue,
                       published, response>>

NextSymbols ==
    \/ ArriveSymbols
    \/ Acquire
    \/ Process
    \/ AddTriggerOrderTo
    \/ QueryBbo

SpecSymbols == Init /\ [][NextSymbols]_vars

\* Concurrent submit requests of every kind the schema lets through.
NextUnpriced == ArriveUnpriced \/ Acquire \/ Process \/ ProcessRaises

SpecUnpriced == Init /\ [][NextUnpriced]_vars

\* Concurrent LIMIT orders for one symbol, and a client following its feeds.
NextFeed ==
    \/ ArriveLimit
    \/ Acquire
    \/ Process
    \/ Deliver
    \/ Subscribe
    \/ Unsubscribe

SpecFeed == Init /\ [][NextFeed]_vars

\* if limit_price is not None and p > limit_price: continue (p < limit_price
\* when the asks are counted).
skipped(side, limit_price, p) ==
    /\ limit_price # None
    /\ IF side = "buy" THEN p > limit_price ELSE p < limit_price

RECURSIVE available_loop(_, _, _, _, _)
\* The for loop of available_qty_on_side_up_to_price over price_list: the
\* levels that are not skipped are summed.
available_loop(pm, os, price_list, side, limit_price) ==
    IF price_list = << >> THEN 0
    ELSE LET p == Head(price_list)
         IN  (IF skipped(side, limit_price, p) THEN 0 ELSE level_total(pm, os, p))
                 + available_loop(pm, os, Tail(price_list), side, limit_price)

\* OrderBook.available_qty_on_side_up_to_price(side, limit_price): side is
\* the side of the book that is counted.
available_qty_on_side_up_to_price(e, side, limit_price) ==
    IF side = "buy"
    THEN available_loop(e.bids_map, e.orders, e.bids_prices, side, limit_price)
    ELSE available_loop(e.asks_map, e.orders, e.asks_prices, side, limit_price)

\* book.available_qty_on_side_up_to_price(side, limit_price) on the book as
\* the submissions so far have left it.
AvailableQty ==
    \E side \in {"buy", "sell"}, limit_price \in Prices \cup {None} :
        /\ query' = [op |-> "available_qty", side |-> side,
                     limit_price |-> limit_price,
                     returned |-> available_qty_on_side_up_to_price(
                                      Engine, side, limit_price)]
        /\ call' = NoCall
        /\ UNCHANGED <<orders, bids_map, asks_map, bids_prices, asks_prices, trades,
                       trigger_vars, server_vars, second>>

\* LIMIT orders, and depth queries between them.
NextDepth == SubmitLimit \/ AvailableQty

SpecDepth == Init /\ [][NextDepth]_vars

\* ------------------------------------------------------------------
\* Operations called on the engine besides process_order
\* ------------------------------------------------------------------
\* The methods the classes MatchingEngine and OrderBook define.
MatchingEngineMethods ==
    {"__init__", "start_persistence_task", "_persist_loop", "save_state_now",
     "get_book", "bbo", "process_order", "_activate_trigger_orders"}

OrderBookMethods ==
    {"__init__", "add_trigger_order", "check_and_activate_triggers",
     "_insert_bid_price", "_insert_ask_price", "_remove_bid_price",
     "_remove_ask_price", "add_order", "remove_empty_price_level", "best_bid",
     "best_ask", "top_n", "available_qty_on_side_up_to_price"}

\* obj.name(...) on an object whose class does not define name: Python raises
\* AttributeError at the lookup, before the call.
attribute_error(methods, name) == name \notin methods

\* engine.cancel(symbol, order_id), for the id of any order the engine has
\* seen or of none.  With no such method the call raises, returns nothing and
\* leaves the engine as it was.
Cancel ==
    \E order_id \in 1..(MaxOrders + 1) :
        /\ attribute_error(MatchingEngineMethods, "cancel")
        /\ attribute_error(OrderBookMethods, "cancel")
        /\ attribute_error(OrderBookMethods, "remove")
        /\ query' = [op |-> "cancel", order_id |-> order_id,
                     raised |-> "AttributeError", returned |-> {},
                     pre |-> Engine]
        /\ call' = NoCall
        /\ UNCHANGED <<orders, bids_map, asks_map, bids_prices, asks_prices, trades,
                       trigger_vars, server_vars, second>>

\* LIMIT and MARKET orders, and cancel requests between them.
NextCancel == SubmitLimit \/ SubmitMarket \/ Cancel

SpecCancel == Init /\ [][NextCancel]_vars

\* ------------------------------------------------------------------
\* Two runs of the engine fed the same submissions
\* ------------------------------------------------------------------
MaxRunOrders == 2

\* The values uuid4() can return and the readings datetime.utcnow() can give.
\* Neither is determined by the program: every call yields any of them, a
\* uuid one that the run has not drawn for an order it still holds.
UUIDs == {"uuid-a", "uuid-b"}
Clock == {1, 2}

\* The symbol of the two runs.
RunSymbol == "BTC-USDT"

\* An Order whose id is written out.  In the records of the model `id` is the
\* reference to the object (its place in the heap); uuid is the value of the
\* field Order.id, the string of a uuid4 drawn when the object is built.
RunOrder(id, order_type, side, quantity, price, uuid) ==
    [id |-> id, order_type |-> order_type, side |-> side,
     quantity |-> quantity, price |-> price, filled |-> 0, uuid |-> uuid]

\* The uuids of the orders a run holds.
uuids_of(os) == {os[i].uuid : i \in 1..Len(os)}

\* datetime.isoformat() + "Z" of a clock reading.
isoformat(t) == <<"T", t, "Z">>

\* Trade.to_dict() of a trade of the engine e: trade_id and timestamp are the
\* defaults drawn when the Trade was built, maker_order_id and taker_order_id
\* the values of the two orders' id fields.  maker_fee and taker_fee, the
\* trade's value times the rates of utils/config, are left out.
to_dict(e, t, trade_id, timestamp) ==
    [timestamp |-> isoformat(timestamp), symbol |-> RunSymbol,
     trade_id |-> trade_id, price |-> str(t.price), quantity |-> str(t.quantity),
     aggressor_side |-> t.aggressor_side,
     maker_order_id |-> e.orders[t.maker_order_id].uuid,
     taker_order_id |-> e.orders[t.taker_order_id].uuid]

\* The same submission is handed to both runs.  Each run builds its own Order
\* (a uuid4 of its own) and its own Trades (a uuid4 and a utcnow each).
SubmitBoth ==
    /\ Len(orders) < MaxRunOrders
    /\ Len(second.e.orders) < MaxRunOrders
    /\ \E order_type \in OrderTypeLiteral, side \in SideLiteral,
          quantity \in Quantities, price \in Prices \cup {None} :
        /\ (order_type = "market") <=> (price = None)
        /\ \E u1 \in UUIDs \ uuids_of(orders), u2 \in UUIDs \ uuids_of(second.e.orders) :
           LET order1 == RunOrder(Len(orders) + 1, order_type, side, quantity, price, u1)
               order2 == RunOrder(Len(second.e.orders) + 1, order_type, side,
                                  quantity, price, u2)
           IN  \E r1 \in {process_order(Engine, order1)},
                  r2 \in {process_order(second.e, order2)} :
                 \E e1 \in {after_call(Engine, r1, order1.id)},
                    e2 \in {after_call(second.e, r2, order2.id)} :
                   \E ids1 \in [1..Len(r1.trades) -> UUIDs],
                      at1 \in [1..Len(r1.trades) -> Clock],
                      ids2 \in [1..Len(r2.trades) -> UUIDs],
                      at2 \in [1..Len(r2.trades) -> Clock] :
                      /\ orders' = e1.orders
                      /\ bids_map' = e1.bids_map
                      /\ asks_map' = e1.asks_map
                      /\ bids_prices' = e1.bids_prices
                      /\ asks_prices' = e1.asks_prices
                      /\ trades' = e1.trades
                      /\ call' = [order |-> r1.e.orders[order1.id],
                                  trades |-> r1.trades, bbo |-> r1.bbo,
                                  pre |-> Engine]
                      /\ second' =
                           [e |-> e2, returned |-> r2.trades, bbo |-> r2.bbo,
                            records |-> [i \in 1..Len(r2.trades) |->
                                to_dict(r2.e, r2.trades[i], ids2[i], at2[i])],
                            first_records |-> [i \in 1..Len(r1.trades) |->
                                to_dict(r1.e, r1.trades[i], ids1[i], at1[i])]]
    /\ query' = NoQuery
    /\ UNCHANGED <<trigger_vars, server_vars>>

NextRuns == SubmitBoth

SpecRuns == Init /\ [][NextRuns]_vars

\* ------------------------------------------------------------------
\* Vocabulary of the properties
\* ------------------------------------------------------------------
\* The last call: its incoming order, its trade list, the engine before it.
taker == call.order
pre == call.pre
called == call.order.id # 0

\* The orders that were resting opposite the incoming order before the call.
PreCounterIds == RestingIn(counter_map(pre, taker.side))

RECURSIVE SumQty(_)
SumQty(ts) == IF ts = << >> THEN 0 ELSE Head(ts).quantity + SumQty(Tail(ts))

TradesOf(ts, id) ==
    SelectSeq(ts, LAMBDA t : t.maker_order_id = id \/ t.taker_order_id = id)

\* What was left of resting order id just before the i-th trade of the call.
RemainingAt(i, id) ==
    remaining(pre.orders[id])
        - SumQty(TradesOf(SubSeq(call.trades, 1, i - 1), id))

\* p is a better price than q for a taker of the given side.
BetterFor(side, p, q) == IF side = "buy" THEN p < q ELSE p > q

\* The limit of the incoming order admits price p.
WithinLimit(order, p) ==
    \/ order.order_type = "market"
    \/ order.side = "buy" /\ p <= order.price
    \/ order.side = "sell" /\ p >= order.price

RECURSIVE SumRemainingOf(_, _)
SumRemainingOf(os, ids) ==
    IF ids = {} THEN 0
    ELSE LET id == CHOOSE x \in ids : TRUE
         IN  remaining(os[id]) + SumRemainingOf(os, ids \ {id})

\* The quantity resting opposite the incoming order, before the call, at
\* prices its limit admits.
PreMarketableDepth ==
    SumRemainingOf(pre.orders,
                   {id \in PreCounterIds : WithinLimit(taker, pre.orders[id].price)})

BookUnchanged ==
    /\ bids_map = pre.bids_map
    /\ asks_map = pre.asks_map
    /\ bids_prices = pre.bids_prices
    /\ asks_prices = pre.asks_prices

\* ------------------------------------------------------------------
\* Properties
\* ------------------------------------------------------------------

\* C1 - No crossed book: after every completed process_order call, whenever
\* best_bid() and best_ask() both exist, best_bid() < best_ask().
NoCrossedBook ==
    (best_bid(Engine) # None /\ best_ask(Engine) # None)
        => best_bid(Engine) < best_ask(Engine)

\* A call that traded and left both sides of the book populated.
NoCrossedBookWitness ==
    /\ call.trades # << >>
    /\ best_bid(Engine) # None
    /\ best_ask(Engine) # None

\* C2 - FIFO within a price level: the maker of every trade is the
\* earliest-inserted order still resting at that price when the trade is made
\* (no earlier order of the level has anything left), and a maker that is only
\* partially filled is still the head of its queue after the call.
FifoWithinLevel ==
    /\ \A i \in 1..Len(call.trades) :
          LET t == call.trades[i]
          IN  /\ t.maker_order_id \in PreCounterIds
              /\ \A id \in PreCounterIds :
                    (/\ pre.orders[id].price = pre.orders[t.maker_order_id].price
                     /\ id < t.maker_order_id)
                        => RemainingAt(i, id) = 0
    /\ \A i \in 1..Len(call.trades) :
          LET m == orders[call.trades[i].maker_order_id]
              cm == counter_map(Engine, taker.side)
          IN  remaining(m) > 0
                => /\ m.price \in DOMAIN cm
                   /\ cm[m.price] # << >>
                   /\ Head(cm[m.price]) = m.id

\* A trade at a level that held two orders, whose maker was only partly
\* filled and so stays in front of the later order.
FifoWithinLevelWitness ==
    \E i \in 1..Len(call.trades) :
        LET m == orders[call.trades[i].maker_order_id]
            cm == counter_map(pre, taker.side)
        IN  /\ Len(cm[m.price]) >= 2
            /\ remaining(m) > 0

\* C3 - No trade-through: when a trade is made no resting order at a strictly
\* better price for the taker has anything left, so the prices of one call's
\* trade list are non-decreasing for a BUY taker and non-increasing for a SELL
\* taker.
NoTradeThrough ==
    /\ \A i \in 1..Len(call.trades) :
          \A id \in PreCounterIds :
              BetterFor(taker.side, pre.orders[id].price, call.trades[i].price)
                  => RemainingAt(i, id) = 0
    /\ \A i \in 1..Len(call.trades), j \in 1..Len(call.trades) :
          i < j => ~BetterFor(taker.side, call.trades[j].price, call.trades[i].price)

\* One call that traded at two different prices.
NoTradeThroughWitness ==
    \E i \in 1..Len(call.trades), j \in 1..Len(call.trades) :
        call.trades[i].price # call.trades[j].price

\* C4 - Maker price rule: the price of every trade is the limit price of the
\* resting order it was matched against.
MakerPriceRule ==
    \A i \in 1..Len(trades) :
        trades[i].price = orders[trades[i].maker_order_id].price

\* A trade whose taker had another limit price than the maker.
MakerPriceRuleWitness ==
    \E i \in 1..Len(call.trades) :
        /\ taker.price # None
        /\ taker.price # pre.orders[call.trades[i].maker_order_id].price

\* C5 - Conservation of quantity: for every order, 0 <= filled <= quantity,
\* filled is the sum of the quantities of the trades the order is maker or taker
\* of, filled never decreases, and every trade has a positive quantity.
Conservation ==
    /\ \A i \in 1..Len(orders) :
          /\ 0 <= orders[i].filled
          /\ orders[i].filled <= orders[i].quantity
          /\ orders[i].filled = SumQty(TradesOf(trades, orders[i].id))
    /\ 0 <= taker.filled
    /\ taker.filled <= taker.quantity
    /\ taker.filled = SumQty(call.trades)
    /\ \A i \in 1..Len(call.trades) : call.trades[i].taker_order_id = taker.id
    /\ \A i \in 1..Len(pre.orders) : orders[i].filled >= pre.orders[i].filled
    /\ \A i \in 1..Len(trades) : trades[i].quantity > 0

\* An order filled in two trades and a resting order that is partly filled.
ConservationWitness ==
    /\ \E i \in 1..Len(orders) : Len(TradesOf(trades, i)) >= 2
    /\ \E id \in RestingIds(Engine) :
          orders[id].filled > 0 /\ remaining(orders[id]) > 0

\* C6 - FOK atomicity: a FOK order is filled completely when the quantity
\* resting at marketable prices covers it, and otherwise trades nothing and
\* leaves the book, every order's filled and the audit log as they were; it
\* never rests and is never partially filled.
FokAtomicity ==
    (called /\ taker.order_type = "fok")
        => /\ taker.id \notin RestingIds(Engine)
           /\ taker.filled \in {0, taker.quantity}
           /\ IF PreMarketableDepth >= taker.quantity
              THEN /\ SumQty(call.trades) = taker.quantity
                   /\ taker.filled = taker.quantity
              ELSE /\ call.trades = << >>
                   /\ taker.filled = 0
                   /\ BookUnchanged
                   /\ orders = pre.orders
                   /\ trades = pre.trades

\* A FOK order cancelled although part of it could have traded, in an engine
\* whose audit log holds the trades of an earlier FOK order that was filled.
FokAtomicityWitness ==
    /\ called
    /\ taker.order_type = "fok"
    /\ call.trades = << >>
    /\ PreMarketableDepth > 0
    /\ \E i \in 1..Len(trades) :
          orders[trades[i].taker_order_id].order_type = "fok"

\* C7 - Post-match disposition: after the call the incoming order rests if and
\* only if it is a LIMIT with remaining > 0, and then it is the last order of
\* the queue at its own price on its own side and nowhere else; what is left of
\* a MARKET or IOC order is dropped.
PostMatchDisposition ==
    called =>
        LET own == IF taker.side = "buy" THEN bids_map ELSE asks_map
            other == IF taker.side = "buy" THEN asks_map ELSE bids_map
            preOwn == IF taker.side = "buy" THEN pre.bids_map ELSE pre.asks_map
            before == IF taker.price \in DOMAIN preOwn
                      THEN preOwn[taker.price] ELSE << >>
        IN  /\ (taker.id \in RestingIds(Engine))
                 <=> (taker.order_type = "limit" /\ remaining(taker) > 0)
            /\ taker.id \in RestingIds(Engine)
                 => /\ taker.price \in DOMAIN own
                    /\ own[taker.price] = Append(before, taker.id)
                    /\ orders[taker.id] = taker
                    /\ taker.id \notin RestingIn(other)
                    /\ \A p \in DOMAIN own :
                          p # taker.price => taker.id \notin Range(own[p])

\* A LIMIT order that traded part of its quantity and rests with the remainder.
PostMatchDispositionWitness ==
    /\ called
    /\ taker.order_type = "limit"
    /\ call.trades # << >>
    /\ remaining(taker) > 0
    /\ taker.id \in RestingIds(Engine)

RestingPositive ==
    /\ \A id \in RestingIds(Engine) : remaining(orders[id]) > 0
    /\ (called /\ remaining(taker) = 0) => taker.id \notin RestingIds(Engine)
    /\ (/\ called
        /\ call.trades # << >>
        /\ remaining(taker) = 0
        /\ \A id \in RestingIds(pre) : remaining(orders[id]) = 0)
          => /\ bids_map = EmptyMap
             /\ asks_map = EmptyMap
             /\ bids_prices = << >>
             /\ asks_prices = << >>
             /\ call.bbo = [bid |-> Null, ask |-> Null]

\* A LIMIT order and two resting orders that consumed each other exactly.
RestingPositiveWitness ==
    /\ called
    /\ taker.order_type = "limit"
    /\ remaining(taker) = 0
    /\ Len(call.trades) = 2
    /\ \A id \in RestingIds(pre) : remaining(orders[id]) = 0
    /\ call.bbo = [bid |-> Null, ask |-> Null]

\* C10 - Queue non-emptiness: every price that is a key of bids_map or asks_map
\* has a non-empty queue, and a level whose last order is filled by a call is
\* gone from the map and from the price list when the call returns.
QueueNonEmpty ==
    /\ \A p \in DOMAIN bids_map : bids_map[p] # << >>
    /\ \A p \in DOMAIN asks_map : asks_map[p] # << >>
    /\ called =>
          \A p \in DOMAIN counter_map(pre, taker.side) :
              (\A id \in Range(counter_map(pre, taker.side)[p]) :
                    remaining(orders[id]) = 0)
                => /\ p \notin DOMAIN counter_map(Engine, taker.side)
                   /\ p \notin Range(counter_prices(Engine, taker.side))

\* A call that emptied one level and left another level of that side standing.
QueueNonEmptyWitness ==
    /\ called
    /\ \E p \in DOMAIN counter_map(pre, taker.side) :
          p \notin DOMAIN counter_map(Engine, taker.side)
    /\ counter_map(Engine, taker.side) # EmptyMap

\* C11 - Index consistency and best price: after every completed call
\* bids_prices holds exactly the keys of bids_map, strictly descending (hence
\* without duplicates), asks_prices exactly the keys of asks_map, strictly
\* ascending; best_bid() is the highest price of a resting bid, best_ask() the
\* lowest price of a resting ask, and each is None exactly when no order rests
\* on its side.
RestingBidPrices == {orders[id].price : id \in RestingIn(bids_map)}

RestingAskPrices == {orders[id].price : id \in RestingIn(asks_map)}

IndexConsistency ==
    /\ Range(bids_prices) = DOMAIN bids_map
    /\ Range(asks_prices) = DOMAIN asks_map
    /\ \A i, j \in 1..Len(bids_prices) : i < j => bids_prices[i] > bids_prices[j]
    /\ \A i, j \in 1..Len(asks_prices) : i < j => asks_prices[i] < asks_prices[j]
    /\ IF RestingBidPrices = {}
       THEN best_bid(Engine) = None
       ELSE /\ best_bid(Engine) \in RestingBidPrices
            /\ \A p \in RestingBidPrices : p <= best_bid(Engine)
    /\ IF RestingAskPrices = {}
       THEN best_ask(Engine) = None
       ELSE /\ best_ask(Engine) \in RestingAskPrices
            /\ \A p \in RestingAskPrices : p >= best_ask(Engine)

\* A bid that opened a new level in front of an existing one, while the ask
\* side is empty.
IndexConsistencyWitness ==
    /\ called
    /\ taker.side = "buy"
    /\ taker.id \in RestingIn(bids_map)
    /\ pre.bids_prices # << >>
    /\ taker.price \notin DOMAIN pre.bids_map
    /\ Head(bids_prices) = taker.price
    /\ Len(bids_prices) >= 2
    /\ asks_prices = << >>

\* C12 - The BBO process_order returns is the post-match BBO: on every return
\* path its bid and ask are null when no order rests on that side after the
\* call, and otherwise the decimal string of the highest resting bid price and
\* of the lowest resting ask price after the call.
RECURSIVE DecimalValue(_)
DecimalValue(digits) ==
    IF digits = << >> THEN 0
    ELSE 10 * DecimalValue(SubSeq(digits, 1, Len(digits) - 1)) + digits[Len(digits)]

IsDecimalString(s) == s # << >> /\ \A i \in 1..Len(s) : s[i] \in 0..9

ReturnedIs(field, prices, best) ==
    IF prices = {}
    THEN field = Null
    ELSE /\ IsDecimalString(field)
         /\ DecimalValue(field) \in prices
         /\ \A p \in prices : best[p, DecimalValue(field)]

PostMatchBbo ==
    called =>
        /\ ReturnedIs(call.bbo.bid, RestingBidPrices,
                      [p \in Prices, q \in Prices |-> p <= q])
        /\ ReturnedIs(call.bbo.ask, RestingAskPrices,
                      [p \in Prices, q \in Prices |-> p >= q])

\* A FOK order rejected while both sides hold orders: the returned BBO is
\* that of the untouched book.
PostMatchBboWitness ==
    /\ called
    /\ taker.order_type = "fok"
    /\ call.trades = << >>
    /\ BookUnchanged
    /\ call.bbo.bid # Null
    /\ call.bbo.ask # Null

\* ------------------------------------------------------------------
\* Properties of the trigger orders
\* ------------------------------------------------------------------
\* The trigger condition of order o against the last trade price.
Condition(o, last) ==
    /\ last # None
    /\ o.stop_price # None
    /\ \/ o.order_type \in {"stop", "stop_limit"} /\ o.side = "sell" /\ last <= o.stop_price
       \/ o.order_type \in {"stop", "stop_limit"} /\ o.side = "buy" /\ last >= o.stop_price
       \/ o.order_type = "take_profit" /\ o.side = "sell" /\ last >= o.stop_price
       \/ o.order_type = "take_profit" /\ o.side = "buy" /\ last <= o.stop_price

IdsOf(seq) == {seq[i].id : i \in 1..Len(seq)}

\* C16 - Trigger activation follows trades: when a process_order call has
\* produced at least one trade, no order whose condition holds against the
\* price of the last trade is still waiting in the trigger table when the
\* call returns (it has been activated and re-injected).
ActivationFollowsTrades ==
    (called /\ call.trades # << >>)
        => \A i \in 1..Len(trigger_orders) :
              ~Condition(trigger_orders[i], call.trades[Len(call.trades)].price)

\* C17 - An order of the stop family handed to process_order produces no
\* trade, does not rest on bids or asks, and is in the trigger table when the
\* call returns.
StopOrderHeld ==
    (called /\ taker.order_type \in StopFamily)
        => /\ call.trades = << >>
           /\ taker.id \notin RestingIn(bids_map) \cup RestingIn(asks_map)
           /\ taker.id \in IdsOf(trigger_orders)

\* C18 - Trigger conditions: check_and_activate_triggers, given the last
\* trade price L, returns exactly the waiting orders whose condition holds
\* against L (STOP and STOP_LIMIT: SELL at L <= stop_price, BUY at
\* L >= stop_price; TAKE_PROFIT: SELL at L >= stop_price, BUY at
\* L <= stop_price), and none when L is None.
TriggerConditions ==
    activation.called =>
        /\ IdsOf(activation.activated)
              = {o.id : o \in {x \in Range(activation.pre) :
                                  Condition(x, activation.last_trade_price)}}
        /\ activation.last_trade_price = None => activation.activated = << >>

\* A scan that met a TAKE_PROFIT whose condition held and a STOP, of the same
\* side and stop price, whose condition did not.
TriggerConditionsWitness ==
    /\ activation.called
    /\ \E i, j \in 1..Len(activation.pre) :
          LET a == activation.pre[i]
              b == activation.pre[j]
          IN  /\ a.order_type = "take_profit"
              /\ b.order_type = "stop"
              /\ a.side = b.side
              /\ a.stop_price = b.stop_price
              /\ a.id \in IdsOf(activation.activated)
              /\ b.id \notin IdsOf(activation.activated)
              /\ b.id \in IdsOf(trigger_orders)

\* C19 - Trigger re-injection: the activated orders are gone from the trigger
\* table, and process_order is called once for each, in the order they stood
\* in the table, with an order of the same side and quantity: a MARKET order
\* for a STOP or TAKE_PROFIT, a LIMIT order at o.price for a STOP_LIMIT.
TriggerReinjection ==
    activation.called =>
        /\ IdsOf(trigger_orders) \cap IdsOf(activation.activated) = {}
        /\ activation.activated
              = SelectSeq(activation.pre,
                          LAMBDA o : o.id \in IdsOf(activation.activated))
        /\ Len(activation.calls) = Len(activation.activated)
        /\ \A i \in 1..Len(activation.calls) :
              LET o == activation.activated[i]
                  c == activation.calls[i]
              IN  /\ c.given.side = o.side
                  /\ c.given.quantity = o.quantity
                  /\ c.given.filled = 0
                  /\ IF o.order_type = "stop_limit"
                     THEN c.given.order_type = "limit" /\ c.given.price = o.price
                     ELSE c.given.order_type = "market" /\ c.given.price = None
                  /\ IF i < Len(activation.calls)
                     THEN activation.calls[i + 1].pre.trades = c.pre.trades \o c.trades
                     ELSE trades = c.pre.trades \o c.trades

\* Two orders activated by one scan: a STOP_LIMIT that rests as a LIMIT order
\* and, after it, a STOP that trades as a MARKET order.
TriggerReinjectionWitness ==
    /\ activation.called
    /\ Len(activation.activated) = 2
    /\ activation.activated[1].order_type = "stop_limit"
    /\ activation.activated[2].order_type = "stop"
    /\ activation.calls[1].order.id \in RestingIds(Engine)
    /\ activation.calls[2].trades # << >>

\* ------------------------------------------------------------------
\* Properties of the server
\* ------------------------------------------------------------------
\* The requests whose process_order is in progress on the book of symbol s.
InProgress(s) ==
    {r \in DOMAIN requests : requests[r].symbol = s /\ requests[r].pc = "locked"}

\* C13 - Per-symbol mutual exclusion: at most one process_order is in
\* progress on a symbol's book at any time, it holds the symbol's lock, and
\* no other submission for the symbol has acquired the lock since it did.
MutualExclusion ==
    \A s \in Symbols :
        /\ Cardinality(InProgress(s)) <= 1
        /\ \A r \in InProgress(s) :
              /\ s \in DOMAIN symbol_locks
              /\ symbol_locks[s]
              /\ requests[r].number = acquired[s]

\* A submission in progress on a symbol while another one for the same symbol
\* waits for the lock.
MutualExclusionWitness ==
    \E r1, r2 \in DOMAIN requests :
        /\ requests[r1].symbol = requests[r2].symbol
        /\ requests[r1].pc = "locked"
        /\ requests[r2].pc = "start"

\* C14 - The depth of an l2_update event sent for a submission is the depth
\* of the book as it was when that submission's process_order returned.
SnapshotAtReturn ==
    published.type = "l2_update"
        => /\ published.data.asks = published.at_return.asks
           /\ published.data.bids = published.at_return.bids

\* C15 - Emission order follows processing order: when an event of a
\* submission is sent, no event of a submission that acquired the symbol's
\* lock later has been sent before it.
EmissionOrder ==
    published.type # "none"
        => published.latest[published.symbol] <= published.number

\* C20 - Validation rejects bad submissions: a request with a quantity that is
\* not positive, or a limit order without a price, is answered with an error,
\* is not passed to process_order, and changes neither book nor audit log.
BadSubmission(r) ==
    \/ r.quantity <= 0
    \/ r.order_type = "limit" /\ r.price = None

ValidationRejects ==
    (response.status # "none" /\ BadSubmission(response))
        => /\ response.status = "error"
           /\ ~response.processed
           /\ ~response.mutated

\* ------------------------------------------------------------------
\* Properties of the operations besides process_order
\* ------------------------------------------------------------------
\* C21: a cancel of a resting order returns canceled=true and removes the
\* order, and its level and index entry when the level becomes empty; a
\* cancel of an id that does not rest (unknown, or cancelled before) returns
\* canceled=false and leaves the book as it was.
IdempotentCancel ==
    query.op = "cancel"
        => IF query.order_id \in RestingIds(query.pre)
           THEN /\ query.returned = {[canceled |-> TRUE]}
                /\ query.order_id \notin RestingIds(Engine)
                /\ RestingIds(Engine) = RestingIds(query.pre) \ {query.order_id}
                /\ \A p \in DOMAIN bids_map : bids_map[p] # << >>
                /\ \A p \in DOMAIN asks_map : asks_map[p] # << >>
                /\ Range(bids_prices) = DOMAIN bids_map
                /\ Range(asks_prices) = DOMAIN asks_map
           ELSE /\ query.returned = {[canceled |-> FALSE]}
                /\ bids_map = query.pre.bids_map
                /\ asks_map = query.pre.asks_map
                /\ bids_prices = query.pre.bids_prices
                /\ asks_prices = query.pre.asks_prices

\* An engine without the uuids of its orders: what is left is the submissions
\* (by their place in the sequence), their fills, and the book.
anonymous(e) ==
    [bids_map |-> e.bids_map, asks_map |-> e.asks_map,
     bids_prices |-> e.bids_prices, asks_prices |-> e.asks_prices,
     trades |-> e.trades,
     orders |-> [i \in 1..Len(e.orders) |->
                   [id |-> e.orders[i].id, order_type |-> e.orders[i].order_type,
                    side |-> e.orders[i].side, quantity |-> e.orders[i].quantity,
                    price |-> e.orders[i].price, filled |-> e.orders[i].filled]]]

DepthTaker ==
    Order(0, IF query.limit_price = None THEN "market" ELSE "fok",
          IF query.side = "sell" THEN "buy" ELSE "sell", MaxQty, query.limit_price)

\* C23: available_qty_on_side_up_to_price returns the remaining quantity of
\* exactly the levels that are marketable against the limit price (asks
\* priced <= P for a taker buy, bids priced >= P for a taker sell, every
\* level without a limit), and agrees with the total of the FOK pre-check of
\* the same taker.
MarketableDepth ==
    query.op = "available_qty"
        => /\ query.returned =
                SumRemainingOf(orders,
                    {id \in RestingIn(counter_map(Engine, DepthTaker.side)) :
                        WithinLimit(DepthTaker, orders[id].price)})
           /\ query.limit_price # None
                => query.returned =
                      fok_total_avail(Engine, DepthTaker,
                                      counter_prices(Engine, DepthTaker.side))

\* C24: every order that passes the validation of OrderRequest is processed
\* to completion and answered with its trades and a BBO, whatever the book
\* holds; an IOC or FOK order without price does not end in an error.
ProcessedToCompletion ==
    (/\ response.status # "none"
     /\ OrderRequest(response.order_type, response.side, response.quantity,
                     response.price))
        => response.status = "accepted"

\* C25: check_and_activate_triggers loses no order: the orders it returns
\* and the orders it leaves in trigger_orders are exactly the orders that
\* were in trigger_orders, each once, and every order that is not activated,
\* one without stop_price included, stays in the table in its place.
NoTriggerLost ==
    activation.called
        => /\ IdsOf(activation.activated) \cup IdsOf(trigger_orders)
                 = IdsOf(activation.pre)
           /\ IdsOf(activation.activated) \cap IdsOf(trigger_orders) = {}
           /\ Len(activation.activated) + Len(trigger_orders) = Len(activation.pre)
           /\ trigger_orders =
                 SelectSeq(activation.pre,
                           LAMBDA o : o.id \notin IdsOf(activation.activated))

\* The request whose process_order call is made in the step.
Processed(r) ==
    /\ r \in DOMAIN requests
    /\ requests[r].pc = "locked"
    /\ r \notin DOMAIN requests' \/ requests'[r].pc # "locked"

\* The orders resting in the book of symbol s, or none when it has no book.
RestingOf(books, s) ==
    IF s \in DOMAIN books THEN RestingIn(books[s].bids_map) \cup RestingIn(books[s].asks_map)
    ELSE {}

\* C26 for one step: a process_order call for symbol S leaves the bids,
\* asks, trigger table and resting orders' fills of every other symbol as
\* they were, and each of its trades is between the incoming order and an
\* order that was resting in the book of S and in no other book; a bbo query
\* for an unseen symbol creates an empty book, returns null/null, and changes
\* no book that exists.
IsolationStep ==
    /\ \A r \in DOMAIN requests :
         Processed(r) =>
           LET S == requests[r].symbol
           IN  /\ DOMAIN order_books' = DOMAIN order_books \cup {S}
               /\ \A s \in DOMAIN order_books \ {S} :
                    /\ order_books'[s] = order_books[s]
                    /\ \A id \in RestingOf(order_books, s) : orders'[id] = orders[id]
               /\ \A i \in (Len(trades) + 1)..Len(trades') :
                    /\ trades'[i].taker_order_id = Len(orders) + 1
                    /\ trades'[i].maker_order_id \in RestingOf(order_books, S)
                    /\ \A s \in DOMAIN order_books \ {S} :
                         trades'[i].maker_order_id \notin RestingOf(order_books, s)
    /\ (query'.op = "bbo" /\ query' # query) =>
           /\ DOMAIN order_books' = DOMAIN order_books \cup {query'.symbol}
           /\ \A s \in DOMAIN order_books : order_books'[s] = order_books[s]
           /\ query'.symbol \notin DOMAIN order_books
                => /\ order_books'[query'.symbol] = EmptyBook
                   /\ query'.returned = [bid |-> Null, ask |-> Null]
           /\ orders' = orders

\* C26: symbol isolation, of every step.
SymbolIsolation == [][IsolationStep]_vars

\* A trade has been made on one symbol while an order rests and a trigger
\* order waits on the other.
SymbolIsolationWitness ==
    \E S \in DOMAIN order_books, s \in DOMAIN order_books :
        /\ S # s
        /\ RestingOf(order_books, s) # {}
        /\ order_books[s].trigger_orders # << >>
        /\ trades # << >>
        /\ trades[Len(trades)].maker_order_id \notin RestingOf(order_books, s)
        /\ response.status = "accepted" /\ response.symbol = S
        /\ response.trades # << >>

\* The queues of the book, each with its side and price.
Levels ==
    {<<"buy", p, bids_map[p]>> : p \in DOMAIN bids_map}
        \cup {<<"sell", p, asks_map[p]>> : p \in DOMAIN asks_map}

\* C27: every order in the queue bids_map[p] is a LIMIT BUY order with price
\* p and every order in asks_map[p] a LIMIT SELL order with price p; no order
\* is twice in a queue or in two queues; no MARKET, IOC, FOK or STOP-family
\* order is in a queue.
LevelHomogeneity ==
    /\ \A l \in Levels :
         /\ \A i \in 1..Len(l[3]) :
              /\ l[3][i] \in 1..Len(orders)
              /\ orders[l[3][i]].id = l[3][i]
              /\ orders[l[3][i]].order_type = "limit"
              /\ orders[l[3][i]].side = l[1]
              /\ orders[l[3][i]].price = l[2]
         /\ \A i, j \in 1..Len(l[3]) : i # j => l[3][i] # l[3][j]
    /\ \A l, k \in Levels : l # k => Range(l[3]) \cap Range(k[3]) = {}

\* Two orders wait at one bid level, an ask level is open, and the last call
\* was for an IOC, FOK or MARKET order of which something was left.
LevelHomogeneityWitness ==
    /\ called
    /\ taker.order_type \in {"ioc", "fok", "market"}
    /\ remaining(taker) > 0
    /\ asks_map # EmptyMap
    /\ \E p \in DOMAIN bids_map : Len(bids_map[p]) >= 2

====
